---- MODULE Spec2Model ----
(***************************************************************************)
(* A model of codemirror-collab-ext: the EditorContentManager (the change  *)
(* classifier and the playback of remote edits), and the remote cursor and *)
(* remote selection decorators with their registries.                      *)
(*                                                                         *)
(* The host editor (CodeMirror 5) is not part of the repository.  It is    *)
(* modelled by what the calls the repository makes on it do:               *)
(*   - a document is a sequence of characters, NL separating its lines;    *)
(*   - a change is announced by "beforeChange" (positions relative to the  *)
(*     document before the change); it is committed unless a listener      *)
(*     cancels it or it neither removes nor inserts text (CodeMirror's     *)
(*     makeChangeInner returns at once for such a change);                 *)
(*   - the committed changes of one operation are reported together by    *)
(*     one "changes" notification when the operation ends.                 *)
(***************************************************************************)
EXTENDS Integers, Sequences, FiniteSets, TLC

VARIABLES
  doc,            \* content of the editor the manager is attached to
  tdoc,           \* content of the target editor of the mirror example
  inOp,           \* the host editor has an operation open
  changeObjs,     \* change objects of the open (or last ended) operation
  suppress,       \* EditorContentManager._suppress
  operationQueue, \* EditorContentManager._operationQueue
  listening,      \* the manager's two listeners are registered on the editor
  calls,          \* callbacks invoked by the last run of _onChanges
  error,          \* error raised by the last run of _onChanges
  ran,            \* _onChanges ran unsuppressed on the last ended operation
  steps,          \* number of steps taken (bounds the runs of the model)
  rt,             \* the insert-then-delete round trip: its inputs and progress
  rg,             \* one replace or delete call: its arguments and progress
  remoteSelections, \* RemoteSelectionManager._remoteSelections
  nextClassId,    \* RemoteSelectionManager._nextClassId
  selection,      \* the RemoteSelection objects created so far
  markers,        \* the text markers in the editor that are not cleared
  cursor,         \* a RemoteCursorWidget (its content manager is the manager)
  last            \* the last call made on a decorator, and how it ended

ecmVars == <<doc, tdoc, inOp, changeObjs, suppress, operationQueue, listening,
             calls, error, ran>>

hostVars == <<doc, tdoc, inOp, changeObjs, suppress, operationQueue, calls,
              error, ran>>

decVars == <<remoteSelections, nextClassId, selection, markers, cursor, last>>

vars == <<ecmVars, steps, rt, rg, decVars>>

-----------------------------------------------------------------------------
(* Bounds of the model.                                                    *)

MaxDocLen == 2
MaxSteps == 4
MaxTextLen == 2
MaxSelections == 1
MaxEdits == 2

-----------------------------------------------------------------------------
(* Text.  A string is a sequence of one-character strings.                 *)

NL == "\n"
CR == "\r"

\* Array.prototype.join("\n") on a list of lines.
RECURSIVE join(_)
join(lines) ==
  IF Len(lines) = 0 THEN <<>>
  ELSE IF Len(lines) = 1 THEN lines[1]
  ELSE lines[1] \o <<NL>> \o join(Tail(lines))

\* The lines of a document (split at every NL).
RECURSIVE docLines(_)
docLines(s) ==
  IF \A i \in 1..Len(s) : s[i] # NL THEN <<s>>
  ELSE LET i == CHOOSE i \in 1..Len(s) :
                  s[i] = NL /\ \A j \in 1..(i - 1) : s[j] # NL
       IN  <<SubSeq(s, 1, i - 1)>> \o docLines(SubSeq(s, i + 1, Len(s)))

\* doc.splitLines(text) of replaceRange: the text split at /\r\n?|\n/.
RECURSIVE splitLines(_)
splitLines(s) ==
  IF \A i \in 1..Len(s) : s[i] \notin {NL, CR} THEN <<s>>
  ELSE LET i == CHOOSE i \in 1..Len(s) :
                  s[i] \in {NL, CR} /\ \A j \in 1..(i - 1) : s[j] \notin {NL, CR}
           skip == IF s[i] = CR /\ i < Len(s) /\ s[i + 1] = NL THEN 2 ELSE 1
       IN  <<SubSeq(s, 1, i - 1)>> \o splitLines(SubSeq(s, i + skip, Len(s)))

-----------------------------------------------------------------------------
(* Positions of the host editor.                                           *)

Pos(l, c) == [line |-> l, ch |-> c]

\* The position of the character offset k of document d (0 <= k <= Len(d)):
\* the line is the number of line breaks before k, the column the distance
\* from the last of them.
PosAt(d, k) ==
  LET brk == {i \in 1..k : d[i] = NL}
      lastBrk == IF brk = {} THEN 0 ELSE CHOOSE i \in brk : \A j \in brk : j <= i
  IN  Pos(Cardinality(brk), k - lastBrk)

\* The character offset a (valid) position of document d denotes.
OffsetAt(d, p) == CHOOSE k \in 0..Len(d) : PosAt(d, k) = p

\* clipPos of the host: a position moved into the document.
clipPos(d, p) ==
  LET ls == docLines(d)
      lastLine == Len(ls) - 1
  IN  IF p.line < 0 THEN Pos(0, 0)
      ELSE IF p.line > lastLine THEN Pos(lastLine, Len(ls[lastLine + 1]))
      ELSE IF p.ch > Len(ls[p.line + 1]) THEN Pos(p.line, Len(ls[p.line + 1]))
      ELSE IF p.ch < 0 THEN Pos(p.line, 0)
      ELSE p

\* editor.posFromIndex(off): walk the lines, each counting its length plus
\* one for the separator; an offset past the end is clipped to the end.
RECURSIVE posIter(_, _, _)
posIter(ls, off, lineNo) ==
  IF ls = <<>> THEN Pos(lineNo, off)
  ELSE LET sz == Len(Head(ls)) + 1
       IN  IF sz > off THEN Pos(lineNo, off)
           ELSE posIter(Tail(ls), off - sz, lineNo + 1)

posFromIndex(d, off) == clipPos(d, posIter(docLines(d), off, 0))

\* editor.indexFromPos(pos): the column plus the sizes of the lines before.
RECURSIVE sizeBefore(_, _)
sizeBefore(ls, n) ==
  IF n = 0 THEN 0 ELSE Len(Head(ls)) + 1 + sizeBefore(Tail(ls), n - 1)

indexFromPos(d, p) ==
  LET c == clipPos(d, p)
  IN  IF c.line < 0 \/ c.ch < 0 THEN 0
      ELSE c.ch + sizeBefore(docLines(d), c.line)

\* editor.getRange(from, to)
getRange(d, from, to) ==
  SubSeq(d, OffsetAt(d, clipPos(d, from)) + 1, OffsetAt(d, clipPos(d, to)))

\* The document after the host replaced [from, to) by the lines of text.
applyChange(d, from, to, lines) ==
  LET a == OffsetAt(d, from)
      b == OffsetAt(d, to)
  IN  SubSeq(d, 1, a) \o join(lines) \o SubSeq(d, b + 1, Len(d))

\* A change that neither removes nor inserts text: the host drops it after
\* "beforeChange" (no edit, no "changes" entry).
isEmptyChange(from, to, lines) == lines = << <<>> >> /\ from = to

-----------------------------------------------------------------------------
(* EditorContentManager.                                                   *)

\* string | null
Null == [null |-> TRUE, val |-> <<>>]
Str(s) == [null |-> FALSE, val |-> s]

NoChange == [from |-> Pos(0, 0), to |-> Pos(0, 0), text |-> << <<>> >>,
             origin |-> "none", a |-> 0, b |-> 0]
NoError == [kind |-> "none", change |-> NoChange]
\* new Error("Unexpected change: " + JSON.stringify(changeObj))
UnexpectedChange(changeObj) == [kind |-> "Unexpected change", change |-> changeObj]
\* destructuring the undefined that shift() returns on an empty queue
TypeError == [kind |-> "TypeError", change |-> NoChange]

\* The change object the host hands to the listeners, for a change of the
\* characters [a, b) of document d.  The fields a and b are not the host's:
\* they keep the offsets the change was made at.
ChangeObj(d, a, b, lines, origin) ==
  [from |-> PosAt(d, a), to |-> PosAt(d, b), text |-> lines, origin |-> origin,
   a |-> a, b |-> b]

\* _onBeforeChange.  tag is not program state: it records which change of the
\* operation the record was made for (0: a change the host did not commit).
onBeforeChange(queue, sup, d, changeObj, tag) ==
  IF sup THEN queue
  ELSE
    LET from == indexFromPos(d, changeObj.from)
        to == indexFromPos(d, changeObj.to)
        deleted == IF from # to
                   THEN Str(getRange(d, changeObj.from, changeObj.to))
                   ELSE Null
        inserted == IF changeObj.text[1] # <<>> \/ Len(changeObj.text) > 1
                    THEN Str(join(changeObj.text))
                    ELSE Null
    IN  Append(queue, [from |-> from, to |-> to, inserted |-> inserted,
                       deleted |-> deleted, tag |-> tag])

\* replaceRange of the host on a document with no operation open and no
\* listener that objects: the document after it.
replaceRange(d, lines, from, to) ==
  IF isEmptyChange(from, to, lines) THEN d ELSE applyChange(d, from, to, lines)

\* insert, replace and delete, as far as the document is concerned.
insertDoc(d, index, text) ==
  LET from == posFromIndex(d, index)
  IN  replaceRange(d, splitLines(text), from, from)

replaceDoc(d, index, length, text) ==
  LET from == posFromIndex(d, index)
      to == posFromIndex(d, index + length)
  IN  replaceRange(d, splitLines(text), from, to)

deleteDoc(d, index, length) ==
  LET from == posFromIndex(d, index)
      to == posFromIndex(d, index + length)
  IN  replaceRange(d, splitLines(<<>>), from, to)

\* The callbacks of the options.  Every invocation is logged (turn: the change
\* of the batch whose turn it was; late: dispose() had been called before).
\* With mirror, they are the example's: they play the edit into the target
\* editor through the target manager.  With disposeAt = turn, the callback
\* calls dispose() on the manager.
callback(st, cb, index, length, text, turn, mirror, disposeAt) ==
  [st EXCEPT
     !.calls = Append(@, [cb |-> cb, index |-> index, length |-> length,
                          text |-> text, turn |-> turn,
                          late |-> ~st.listening]),
     !.listening = IF disposeAt = turn THEN FALSE ELSE @,
     !.tdoc = IF ~mirror THEN @
              ELSE IF cb = "onInsert" THEN insertDoc(@, index, text)
              ELSE IF cb = "onReplace" THEN replaceDoc(@, index, length, text)
              ELSE deleteDoc(@, index, length)]

\* The forEach of _onChanges from the change i on.
RECURSIVE forEachChange(_, _, _, _, _)
forEachChange(changes, i, st, mirror, disposeAt) ==
  IF i > Len(changes) THEN st
  ELSE IF st.queue = <<>> THEN [st EXCEPT !.error = TypeError]
  ELSE
    LET op == Head(st.queue)
        s1 == [st EXCEPT !.queue = Tail(@)]
    IN  IF ~op.inserted.null /\ op.deleted.null
        THEN forEachChange(changes, i + 1,
               callback(s1, "onInsert", op.from, 0, op.inserted.val, i,
                        mirror, disposeAt),
               mirror, disposeAt)
        ELSE IF ~op.inserted.null /\ ~op.deleted.null
        THEN forEachChange(changes, i + 1,
               callback(s1, "onReplace", op.from, op.to - op.from,
                        op.inserted.val, i, mirror, disposeAt),
               mirror, disposeAt)
        ELSE IF op.inserted.null /\ ~op.deleted.null
        THEN forEachChange(changes, i + 1,
               callback(s1, "onDelete", op.from, op.to - op.from, <<>>, i,
                        mirror, disposeAt),
               mirror, disposeAt)
        ELSE [s1 EXCEPT !.error = UnexpectedChange(changes[i])]

\* _onChanges
onChanges(st, sup, changes, mirror, disposeAt) ==
  IF sup THEN st ELSE forEachChange(changes, 1, st, mirror, disposeAt)

\* Records left in the queue when an operation has ended belong to no change
\* of a later operation.
stale(queue) == [i \in 1..Len(queue) |-> [queue[i] EXCEPT !.tag = 0]]

-----------------------------------------------------------------------------
(* The host editor and the application.                                    *)

InitDocs == {<<>>, <<"a">>, <<"a", NL>>}
\* changeObj.text of a local change: nothing, a character, a line break
LocalTexts == {<< <<>> >>, << <<"a">> >>, << <<>>, <<>> >>}
\* the text argument of insert and replace
PlayTexts == {<<"a">>, <<NL>>}

-----------------------------------------------------------------------------
(* The decorators: remote selections with their registry, and the widget   *)
(* of a remote cursor.                                                     *)

Ids == {"u1", "u2"}

\* A position that was never assigned (undefined).
NoPos == Pos(-1, -1)

\* RemoteSelection's constructor: the style element is added to the document
\* head; _startPosition, _endPosition, _marker and _disposed are not assigned
\* (an unassigned _disposed is falsy).  marker tells what _marker refers to:
\* "none", a "live" marker of the editor or a "cleared" one.  A selection has
\* its own class name and _render clears its marker before it makes the next,
\* so the editor holds at most one live marker per class name.
RemoteSelection(id, classId) ==
  [id |-> id, classId |-> classId, styleElement |-> TRUE,
   startPosition |-> NoPos, endPosition |-> NoPos, marker |-> "none",
   disposed |-> FALSE, onDisposedCalls |-> 0]

\* RemoteCursorWidget's constructor.  The node of the widget is added to the
\* editor; the "scroll" listener is registered when the tooltip is enabled.
\* tooltipTimer: a timer set by setPosition to show the tooltip is pending
\* (what the timers do to the style of the tooltip is left out).
RemoteCursorWidget(tooltipEnabled) ==
  [domNode |-> TRUE, display |-> "", tooltipNode |-> tooltipEnabled,
   scroll |-> tooltipEnabled, index |-> 0, position |-> Pos(0, 0),
   tooltipTimer |-> FALSE, disposed |-> FALSE, onDisposedCalls |-> 0]

NoCall == [op |-> "none", on |-> "none", again |-> FALSE, raised |-> "none",
           seen |-> {}, bad |-> {}, n |-> 0, start |-> NoPos, end |-> NoPos]

\* The call op made on a decorator and the error it raised.  Of a dispose()
\* it is kept on which kind of decorator it was made and whether the
\* decorator had been disposed of before (again); seen holds the kinds of
\* decorator on which that has happened so far.
Call(op, on, again, raised) ==
  IF op = "dispose"
  THEN [op |-> op, on |-> on, again |-> again, raised |-> raised,
        seen |-> IF again THEN last.seen \cup {on} ELSE last.seen, bad |-> {},
        n |-> 0, start |-> NoPos, end |-> NoPos]
  ELSE [op |-> "other", on |-> "none", again |-> FALSE, raised |-> raised,
        seen |-> last.seen, bad |-> {}, n |-> 0, start |-> NoPos,
        end |-> NoPos]

\* A call op that gave the n-th selection the positions start and end.
CallOn(op, n, start, end) ==
  [Call("other", "none", FALSE, "none")
     EXCEPT !.op = op, !.n = n, !.start = start, !.end = end]

\* A call given arguments of which the parameters bad are invalid.
CallWith(raised, bad) == [Call("other", "none", FALSE, raised) EXCEPT !.bad = bad]

\* Values by their type: what typeof tells of them, null apart ("absent": a
\* property an object does not have); num is the value of a number.
Value(type) == [type |-> type, num |-> 0]
Number(n) == [type |-> "number", num |-> n]
\* An object {line, ch}
PosValue(line, ch) == [type |-> "object", line |-> line, ch |-> ch]

\* Validation.assertNumber, assertDefined, assertFunction, assertPosition:
\* TRUE when the assertion passes.
assertNumberOrNot(val) == TRUE
assertNumber(val) == val.type = "number"
assertDefined(val) == val.type \notin {"undefined", "null", "absent"}
assertFunction(val) == val.type = "function"
\* val.line, val.ch: undefined on a value that is not an object
property(val, k) == IF val.type = "object" THEN val[k] ELSE Value("undefined")
assertPosition(val) ==
  /\ assertDefined(val)
  /\ property(val, "line").type = "number"
  /\ property(val, "ch").type = "number"

\* {...EditorContentManager._DEFAULTS, ...options}
withDefaults(options) ==
  [k \in DOMAIN options |->
     IF options[k].type = "absent" /\ k # "editor" THEN Value("function")
     ELSE options[k]]

\* The validation of EditorContentManager's constructor: the parameter the
\* error it raises names, "none" when it raises none.
validateOptions(options) ==
  LET o == withDefaults(options)
  IN  IF ~assertDefined(o.editor) THEN "options.editor"
      ELSE IF ~assertFunction(o.onInsert) THEN "options.onInsert"
      ELSE IF ~assertFunction(o.onReplace) THEN "options.onReplace"
      ELSE IF ~assertFunction(o.onDelete) THEN "options.onDelete"
      ELSE "none"

\* RemoteCursorWidget._updatePosition, the editor holding the document d
updatePositionIn(d, w, position) ==
  [w EXCEPT !.index = indexFromPos(d, position), !.position = position]

\* RemoteCursorWidget._updatePosition
updatePosition(w, position) == updatePositionIn(doc, w, position)

\* RemoteCursorWidget.setPosition: the widget after it and the parameter the
\* error it raises names.
setPosition(w, val) ==
  IF ~assertPosition(val) THEN [w |-> w, raised |-> "position"]
  ELSE [w |-> [updatePosition(w, Pos(val.line.num, val.ch.num))
                 EXCEPT !.tooltipTimer = @ \/ w.tooltipNode],
        raised |-> "none"]

\* RemoteCursorWidget.setIndex
setIndex(w, val) ==
  IF ~assertNumber(val) THEN [w |-> w, raised |-> "index"]
  ELSE LET position == posFromIndex(doc, val.num)
       IN  setPosition(w, PosValue(Number(position.line), Number(position.ch)))

noDecorators ==
  /\ remoteSelections = [id \in Ids |-> 0]
  /\ nextClassId = 0
  /\ selection = <<>>
  /\ markers = {}
  /\ cursor = RemoteCursorWidget(FALSE)
  /\ last = NoCall

\* _swapIfNeeded
\* _swapIfNeeded that never exchanges the two positions.
neverSwapped(start, end) == [start |-> start, end |-> end]

swapIfNeeded(start, end) ==
  IF start.line < end.line \/ (start.line = end.line /\ start.ch <= end.ch)
  THEN [start |-> start, end |-> end]
  ELSE [start |-> end, end |-> start]

\* TextMarker.clear() on the marker that _marker of the selection of a class
\* name refers to (held: a selection's _marker refers to the marker);
\* clearing a cleared marker does nothing.
clear(ms, className) == {m \in ms : ~(m.className = className /\ m.held)}

\* RemoteSelection.hide, on decorator state d = [selection, markers, raised].
hide(d, n) ==
  IF d.selection[n].marker # "none"
  THEN [d EXCEPT !.markers = clear(@, d.selection[n].classId),
                 !.selection[n].marker = "cleared"]
  ELSE d

\* RemoteSelection._render.  markText clips the positions it is given and
\* raises a TypeError for a position that is undefined; it returns a marker
\* but does not connect it to the document when the range is empty.
markText(h, n) ==
  LET sel == h.selection[n]
      from == clipPos(doc, sel.startPosition)
      to == clipPos(doc, sel.endPosition)
      \* this._marker = ...: the selection refers to its former marker no more
      others == {IF m.className = sel.classId THEN [m EXCEPT !.held = FALSE]
                 ELSE m : m \in h.markers}
  IN  IF sel.startPosition = NoPos \/ sel.endPosition = NoPos
      THEN [h EXCEPT !.raised = "TypeError"]
      ELSE [h EXCEPT
              !.markers = IF from = to THEN others
                          ELSE others \cup {[className |-> sel.classId,
                                             from |-> from, to |-> to,
                                             held |-> TRUE]},
              !.selection[n].marker = "live"]

\* _render that does not clear the marker before it makes the next one.
renderUncleared(d, n) == markText(d, n)

render(d, n) == markText(hide(d, n), n)

\* RemoteSelection.setPositions
setPositions(d, n, start, end) ==
  LET ordered == swapIfNeeded(start, end)
  IN  render([d EXCEPT !.selection[n].startPosition = ordered.start,
                       !.selection[n].endPosition = ordered.end], n)

\* RemoteSelection.setIndices
setIndices(d, n, start, end) ==
  setPositions(d, n, posFromIndex(doc, start), posFromIndex(doc, end))

\* RemoteSelection.dispose, with the onDisposed callback of addSelection,
\* and RemoteSelectionManager.removeSelection with _getSelection.
RECURSIVE dispose(_, _)
RECURSIVE removeSelection(_, _)
dispose(d, n) ==
  IF ~d.selection[n].disposed
  THEN LET unstyled == [d EXCEPT !.selection[n].styleElement = FALSE]
           hidden == hide(unstyled, n)
           done == [hidden EXCEPT !.selection[n].disposed = TRUE,
                                  !.selection[n].onDisposedCalls = @ + 1]
       IN  removeSelection(done, d.selection[n].id)
  ELSE d

removeSelection(d, id) ==
  IF remoteSelections[id] = 0
  THEN [d EXCEPT !.raised = "No such selection"]
  ELSE IF ~d.selection[remoteSelections[id]].disposed
       THEN dispose(d, remoteSelections[id])
       ELSE d

\* RemoteCursorWidget.dispose without its guard on _disposed.
widgetDisposeUnguarded(w) ==
  [w EXCEPT !.scroll = FALSE, !.disposed = TRUE, !.onDisposedCalls = @ + 1]

\* RemoteCursorWidget.dispose: what it does to the widget.
widgetDispose(w) ==
  IF w.disposed THEN w
  ELSE [w EXCEPT !.scroll = FALSE, !.disposed = TRUE, !.onDisposedCalls = @ + 1]

-----------------------------------------------------------------------------

\* A manager just constructed on an editor that holds document d.
newManager(d) ==
  /\ doc = d
  /\ inOp = FALSE
  /\ changeObjs = <<>>
  /\ suppress = FALSE
  /\ operationQueue = <<>>
  /\ listening = TRUE
  /\ calls = <<>>
  /\ error = NoError
  /\ ran = FALSE
  /\ steps = 0

NoRoundTrip == [pc |-> "none", orig |-> <<>>, i |-> 0, t |-> <<>>]

NoRange == [pc |-> "none", op |-> "none", orig |-> <<>>, index |-> 0,
            length |-> 0, text |-> <<>>]

Init ==
  /\ \E d \in InitDocs : newManager(d)
  /\ tdoc = <<>>
  /\ rt = NoRoundTrip
  /\ rg = NoRange
  /\ noDecorators

\* One more step of a bounded run.
Step == steps < MaxSteps /\ steps' = steps + 1

\* The host opens an operation (editor.operation, or the handling of input).
BeginOperation ==
  /\ Step
  /\ ~inOp
  /\ inOp' = TRUE
  /\ changeObjs' = <<>>
  /\ calls' = <<>>
  /\ error' = NoError
  /\ ran' = FALSE
  /\ UNCHANGED <<doc, tdoc, suppress, operationQueue, listening, rt, rg, decVars>>

\* A change made in the editor by the user or the application (not through
\* the manager): "beforeChange" is signalled, and the change is committed
\* unless it is cancelled or empty.
hostChange(a, b, lines, cancelled) ==
  LET changeObj == ChangeObj(doc, a, b, lines, "local")
      committed == ~cancelled /\ ~isEmptyChange(changeObj.from, changeObj.to, lines)
      tag == IF committed THEN Len(changeObjs) + 1 ELSE 0
  IN  /\ inOp
      /\ operationQueue' =
           IF listening
           THEN onBeforeChange(operationQueue, suppress, doc, changeObj, tag)
           ELSE operationQueue
      /\ doc' = IF committed
                THEN applyChange(doc, changeObj.from, changeObj.to, lines)
                ELSE doc
      /\ changeObjs' = IF committed THEN Append(changeObjs, changeObj)
                       ELSE changeObjs
      /\ UNCHANGED <<tdoc, inOp, suppress, listening, calls, error, ran>>

LocalChange ==
  /\ Step
  /\ \E a \in 0..Len(doc) : \E b \in a..Len(doc) : \E lines \in LocalTexts :
       hostChange(a, b, lines, FALSE)
  /\ Len(doc') <= MaxDocLen
  /\ UNCHANGED <<rt, rg, decVars>>

\* Another "beforeChange" listener calls changeObj.cancel().
CancelledChange ==
  /\ Step
  /\ \E a \in 0..Len(doc) : \E b \in a..Len(doc) : \E lines \in LocalTexts :
       hostChange(a, b, lines, TRUE)
  /\ UNCHANGED <<rt, rg, decVars>>

\* The operation ends: "changes" is signalled with its change objects, if any.
endOperation(mirror, disposeAt) ==
  LET st == [queue |-> operationQueue, calls |-> calls,
             listening |-> listening, error |-> error, tdoc |-> tdoc]
      signalled == changeObjs # <<>> /\ listening
      out == IF signalled
             THEN onChanges(st, suppress, changeObjs, mirror, disposeAt)
             ELSE st
  IN  /\ inOp
      /\ inOp' = FALSE
      /\ operationQueue' = stale(out.queue)
      /\ calls' = out.calls
      /\ listening' = out.listening
      /\ error' = out.error
      /\ tdoc' = out.tdoc
      /\ ran' = (signalled /\ ~suppress)
      /\ UNCHANGED <<doc, changeObjs, suppress>>

EndOperation ==
  /\ Step
  /\ \E disposeAt \in 0..Len(changeObjs) : endOperation(FALSE, disposeAt)
  /\ UNCHANGED <<rt, rg, decVars>>

\* insert, replace or delete called on the manager: an edit of the lines of
\* text over [from, to) played into the editor under _suppress.
playback(from, to, lines) ==
  LET changeObj == ChangeObj(doc, OffsetAt(doc, from), OffsetAt(doc, to),
                             lines, "remote")
      committed == ~isEmptyChange(from, to, lines)
      sup == TRUE
      q1 == IF listening
            THEN onBeforeChange(operationQueue, sup, doc, changeObj, 0)
            ELSE operationQueue
      st == [queue |-> q1, calls |-> calls, listening |-> listening,
             error |-> error, tdoc |-> tdoc]
      \* with no operation open the edit is an operation of its own, and
      \* "changes" is signalled before replaceRange returns
      out == IF committed /\ ~inOp /\ listening
             THEN onChanges(st, sup, <<changeObj>>, FALSE, 0)
             ELSE st
  IN  /\ doc' = replaceRange(doc, lines, from, to)
      /\ changeObjs' = IF committed /\ inOp THEN Append(changeObjs, changeObj)
                       ELSE changeObjs
      /\ operationQueue' = out.queue
      /\ calls' = out.calls
      /\ error' = out.error
      /\ suppress' = FALSE
      /\ UNCHANGED <<tdoc, inOp, listening, ran>>

\* insert
insert(index, text) ==
  LET from == posFromIndex(doc, index)
  IN  playback(from, from, splitLines(text))

\* replace with its second argument read as the end of the range.
replaceUpTo(index, end, text) ==
  LET from == posFromIndex(doc, index)
      to == posFromIndex(doc, IF end < index THEN index ELSE end)
  IN  playback(from, to, splitLines(text))

\* replace
replace(index, length, text) ==
  LET from == posFromIndex(doc, index)
      to == posFromIndex(doc, index + length)
  IN  playback(from, to, splitLines(text))

\* delete that removes one character more than it is asked to.
deleteOneMore(index, length) ==
  LET from == posFromIndex(doc, index)
      to == posFromIndex(doc, index + length + 1)
  IN  playback(from, to, splitLines(<<>>))

\* delete
delete(index, length) ==
  LET from == posFromIndex(doc, index)
      to == posFromIndex(doc, index + length)
  IN  playback(from, to, splitLines(<<>>))

\* The application plays a remote edit into the editor; an index may lie
\* past the end of the document.
Insert ==
  /\ Step
  /\ \E index \in 0..(Len(doc) + 1) : \E text \in PlayTexts : insert(index, text)
  /\ Len(doc') <= MaxDocLen
  /\ UNCHANGED <<rt, rg, decVars>>

Replace ==
  /\ Step
  /\ \E index \in 0..(Len(doc) + 1) : \E length \in 1..2 : \E text \in PlayTexts :
       replace(index, length, text)
  /\ Len(doc') <= MaxDocLen
  /\ UNCHANGED <<rt, rg, decVars>>

Delete ==
  /\ Step
  /\ \E index \in 0..(Len(doc) + 1) : \E length \in 1..2 : delete(index, length)
  /\ UNCHANGED <<rt, rg, decVars>>

\* dispose
Dispose ==
  /\ Step
  /\ listening' = FALSE
  /\ UNCHANGED <<doc, tdoc, inOp, changeObjs, suppress, operationQueue, calls,
                 error, ran, rt, rg, decVars>>

Next ==
  \/ BeginOperation
  \/ LocalChange
  \/ CancelledChange
  \/ EndOperation
  \/ Insert
  \/ Replace
  \/ Delete
  \/ Dispose

Spec == Init /\ [][Next]_vars

\* insert, replace or delete called on the manager when the host raises an
\* error in posFromIndex or replaceRange before it changes the document (an
\* argument it cannot handle, a "beforeChange" listener that throws): the
\* call exits at the error, after _suppress = true and before
\* _suppress = false.
PlaybackRaises ==
  /\ Step
  /\ suppress' = TRUE
  /\ UNCHANGED <<doc, tdoc, inOp, changeObjs, operationQueue, listening, calls,
                 error, ran, rt, rg, decVars>>

NextPlayback == Next \/ PlaybackRaises

SpecPlayback == Init /\ [][NextPlayback]_vars

\* The mirror example: the callbacks of the source manager play every edit
\* into the target editor, which starts with the same content.
InitMirror ==
  /\ \E d \in InitDocs : newManager(d)
  /\ tdoc = doc
  /\ rt = NoRoundTrip
  /\ rg = NoRange
  /\ noDecorators

EndOperationMirror == Step /\ endOperation(TRUE, 0) /\ UNCHANGED <<rt, rg, decVars>>

\* The round trip: insert(i, t) and then delete(i, t.length) on a manager,
\* for a document, an index and a text drawn from bounded sets.
Seqs(S, n) == UNION {[1..k -> S] : k \in 0..n}
RtDocs == Seqs({"a", NL}, MaxDocLen)
RtTexts == Seqs({"b", NL, CR}, MaxTextLen)

InitRoundTrip ==
  /\ \E d \in RtDocs : newManager(d)
  /\ tdoc = <<>>
  /\ \E i \in 0..(MaxDocLen + 1) : \E t \in RtTexts :
       rt = [pc |-> "start", orig |-> doc, i |-> i, t |-> t]
  /\ rg = NoRange
  /\ noDecorators

RoundTripInsert ==
  /\ rt.pc = "start"
  /\ insert(rt.i, rt.t)
  /\ rt' = [rt EXCEPT !.pc = "inserted"]
  /\ UNCHANGED <<steps, rg, decVars>>

RoundTripDelete ==
  /\ rt.pc = "inserted"
  /\ delete(rt.i, Len(rt.t))
  /\ rt' = [rt EXCEPT !.pc = "done"]
  /\ UNCHANGED <<steps, rg, decVars>>

NextRoundTrip == RoundTripInsert \/ RoundTripDelete

SpecRoundTrip == InitRoundTrip /\ [][NextRoundTrip]_vars

\* One call of replace(index, length, text) or of delete(index, length) on a
\* manager, for a document, arguments and a text drawn from bounded sets.
RangeDocs == {<<>>, <<"a">>, <<"a", "b">>, <<"a", "b", "c">>,
              <<"a", "b", "c", "d">>, <<"a", NL, "b", "c">>}
RangeTexts == {<<"x">>, <<NL>>, <<"x", "y">>}
RangeArgs == 0..4

InitRange ==
  /\ \E d \in RangeDocs : newManager(d)
  /\ tdoc = <<>>
  /\ rt = NoRoundTrip
  /\ \E index \in RangeArgs : \E length \in RangeArgs :
       \/ \E text \in RangeTexts :
            rg = [pc |-> "start", op |-> "replace", orig |-> doc,
                  index |-> index, length |-> length, text |-> text]
       \/ rg = [pc |-> "start", op |-> "delete", orig |-> doc,
                index |-> index, length |-> length, text |-> <<>>]
  /\ noDecorators

RangeReplace ==
  /\ rg.pc = "start" /\ rg.op = "replace"
  /\ replace(rg.index, rg.length, rg.text)
  /\ rg' = [rg EXCEPT !.pc = "done"]
  /\ UNCHANGED <<steps, rt, decVars>>

RangeDelete ==
  /\ rg.pc = "start" /\ rg.op = "delete"
  /\ delete(rg.index, rg.length)
  /\ rg' = [rg EXCEPT !.pc = "done"]
  /\ UNCHANGED <<steps, rt, decVars>>

NextRange == RangeReplace \/ RangeDelete

SpecRange == InitRange /\ [][NextRange]_vars

-----------------------------------------------------------------------------
(* The decorators' operations.  The application holds the objects that     *)
(* addSelection returned, so it can call any of them at any time.          *)

DecorIndices == {0, 2}

decorators == [selection |-> selection, markers |-> markers, raised |-> "none"]

\* The outcome d of a call op on a selection that was disposed of or not.
selectionCall(op, again, d) ==
  /\ selection' = d.selection
  /\ markers' = d.markers
  /\ last' = Call(op, "selection", again, d.raised)
  /\ UNCHANGED <<remoteSelections, nextClassId, cursor, ecmVars, steps, rt, rg>>

InitDecor ==
  /\ newManager(<<"a", NL>>)
  /\ tdoc = <<>>
  /\ rt = NoRoundTrip
  /\ rg = NoRange
  /\ remoteSelections = [id \in Ids |-> 0]
  /\ nextClassId = 0
  /\ selection = <<>>
  /\ markers = {}
  /\ cursor = RemoteCursorWidget(TRUE)
  /\ last = NoCall

\* RemoteSelectionManager.addSelection
AddSelection ==
  \E id \in Ids :
    /\ Len(selection) < MaxSelections
    /\ selection' = Append(selection, RemoteSelection(id, nextClassId))
    /\ remoteSelections' = [remoteSelections EXCEPT ![id] = Len(selection) + 1]
    /\ nextClassId' = nextClassId + 1
    /\ last' = Call("addSelection", "manager", FALSE, "none")
    /\ UNCHANGED <<markers, cursor, ecmVars, steps, rt, rg>>

\* RemoteSelectionManager.removeSelection
RemoveSelection ==
  \E id \in Ids :
    selectionCall("removeSelection", FALSE, removeSelection(decorators, id))

SelectionSetIndices ==
  \E n \in 1..Len(selection) : \E start \in DecorIndices : \E end \in DecorIndices :
    selectionCall("setIndices", selection[n].disposed,
                  setIndices(decorators, n, start, end))

SelectionShow ==
  \E n \in 1..Len(selection) :
    selectionCall("show", selection[n].disposed, render(decorators, n))

SelectionHide ==
  \E n \in 1..Len(selection) :
    selectionCall("hide", selection[n].disposed, hide(decorators, n))

SelectionDispose ==
  \E n \in 1..Len(selection) :
    selectionCall("dispose", selection[n].disposed, dispose(decorators, n))

\* The outcome w of a call op on the cursor's widget.
widgetCall(op, w) ==
  /\ cursor' = w
  /\ last' = Call(op, "cursor", cursor.disposed, "none")
  /\ UNCHANGED <<remoteSelections, nextClassId, selection, markers, hostVars,
                 steps, rt, rg>>

\* RemoteCursorWidget.setIndex, with setPosition and _updatePosition
CursorSetIndex ==
  \E index \in DecorIndices :
    /\ widgetCall("setIndex", setIndex(cursor, Number(index)).w)
    /\ UNCHANGED listening

\* RemoteCursorWidget.show
CursorShow ==
  /\ widgetCall("show", [cursor EXCEPT !.display = "inherit"])
  /\ UNCHANGED listening

\* RemoteCursorWidget.hide
CursorHide ==
  /\ widgetCall("hide", [cursor EXCEPT !.display = "none"])
  /\ UNCHANGED listening

\* RemoteCursorWidget.dispose; it disposes of the widget's content manager.
CursorDispose ==
  /\ widgetCall("dispose", widgetDispose(cursor))
  /\ listening' = (cursor.disposed /\ listening)

NextDecor ==
  \/ AddSelection \/ RemoveSelection
  \/ SelectionSetIndices \/ SelectionShow \/ SelectionHide \/ SelectionDispose
  \/ CursorSetIndex \/ CursorShow \/ CursorHide \/ CursorDispose

SpecDecor == InitDecor /\ [][NextDecor]_vars

\* setPositions and setIndices of a selection called with any two positions
\* (also ones that lie outside the text) or offsets, in either order.
OrderPositions == {Pos(l, c) : l \in 0..1, c \in 0..2}
OrderIndices == 0..(MaxDocLen + 1)

selectionCallOn(op, n, start, end, d) ==
  /\ selection' = d.selection
  /\ markers' = d.markers
  /\ last' = CallOn(op, n, start, end)
  /\ UNCHANGED <<remoteSelections, nextClassId, cursor, ecmVars, steps, rt, rg>>

SelectionSetPositionsOf ==
  \E n \in 1..Len(selection) : \E start \in OrderPositions, end \in OrderPositions :
    selectionCallOn("setPositions", n, start, end,
                    setPositions(decorators, n, start, end))

SelectionSetIndicesOf ==
  \E n \in 1..Len(selection) : \E start \in OrderIndices, end \in OrderIndices :
    selectionCallOn("setIndices", n, posFromIndex(doc, start),
                    posFromIndex(doc, end),
                    setIndices(decorators, n, start, end))

\* The selection that addSelection("u1", color) of a new manager returned.
InitOrder ==
  /\ newManager(<<"a", NL>>)
  /\ tdoc = <<>>
  /\ rt = NoRoundTrip
  /\ rg = NoRange
  /\ remoteSelections = [id \in Ids |-> IF id = "u1" THEN 1 ELSE 0]
  /\ nextClassId = 1
  /\ selection = <<RemoteSelection("u1", 0)>>
  /\ markers = {}
  /\ cursor = RemoteCursorWidget(TRUE)
  /\ last = NoCall

NextOrder ==
  \/ SelectionSetPositionsOf \/ SelectionSetIndicesOf
  \/ SelectionShow \/ SelectionHide \/ SelectionDispose

SpecOrder == InitOrder /\ [][NextOrder]_vars

\* The validated entry points called with arguments of any type: the
\* constructor of EditorContentManager (no manager is listening before), and
\* setIndex and setPosition of a cursor's widget.
EditorValues == {Value("object"), Value("undefined"), Value("null"), Value("absent")}
CallbackValues == {Value("function"), Value("absent"), Value("undefined"),
                   Value("string")}
IndexValues == {Number(n) : n \in DecorIndices}
                 \cup {Value("string"), Value("undefined"), Value("object")}
PositionValues ==
  {PosValue(l, c) : l \in {Number(0), Value("undefined"), Value("string")},
                    c \in {Number(0), Number(1), Value("undefined")}}
    \cup {Value("undefined"), Value("null")}

InitValid ==
  /\ doc = <<"a", NL>>
  /\ inOp = FALSE
  /\ changeObjs = <<>>
  /\ suppress = FALSE
  /\ operationQueue = <<>>
  /\ listening = FALSE
  /\ calls = <<>>
  /\ error = NoError
  /\ ran = FALSE
  /\ steps = 0
  /\ tdoc = <<>>
  /\ rt = NoRoundTrip
  /\ rg = NoRange
  /\ remoteSelections = [id \in Ids |-> 0]
  /\ nextClassId = 0
  /\ selection = <<>>
  /\ markers = {}
  /\ cursor = RemoteCursorWidget(TRUE)
  /\ last = NoCall

\* new EditorContentManager(options)
Construct ==
  \E editor \in EditorValues :
    \E onInsert \in CallbackValues, onReplace \in CallbackValues,
       onDelete \in CallbackValues :
      LET options == [editor |-> editor, onInsert |-> onInsert,
                      onReplace |-> onReplace, onDelete |-> onDelete]
          raised == validateOptions(options)
          bad == {"options.editor" : x \in {editor} \ {Value("object")}}
                   \cup {"options.onInsert" : x \in {onInsert} \
                                     {Value("function"), Value("absent")}}
                   \cup {"options.onReplace" : x \in {onReplace} \
                                     {Value("function"), Value("absent")}}
                   \cup {"options.onDelete" : x \in {onDelete} \
                                     {Value("function"), Value("absent")}}
      IN  /\ ~listening
          /\ listening' = (raised = "none")
          /\ operationQueue' = <<>>
          /\ last' = CallWith(raised, bad)
          /\ UNCHANGED <<doc, tdoc, inOp, changeObjs, suppress, calls, error,
                         ran, steps, rt, rg, remoteSelections, nextClassId,
                         selection, markers, cursor>>

\* The outcome out = [w, raised] of a call on the cursor's widget given
\* arguments of which the parameters bad are invalid.
widgetCallWith(out, bad) ==
  /\ cursor' = out.w
  /\ last' = CallWith(out.raised, bad)
  /\ UNCHANGED <<remoteSelections, nextClassId, selection, markers, ecmVars,
                 steps, rt, rg>>

CursorSetIndexOf ==
  \E val \in IndexValues :
    widgetCallWith(setIndex(cursor, val),
                   IF val.type = "number" THEN {} ELSE {"index"})

CursorSetPositionOf ==
  \E val \in PositionValues :
    widgetCallWith(setPosition(cursor, val),
                   IF val \in {PosValue(Number(0), Number(0)),
                               PosValue(Number(0), Number(1))}
                   THEN {} ELSE {"position"})

\* The timer set by setPosition fires (_showTooltip).
ShowTooltip ==
  /\ cursor.tooltipTimer
  /\ cursor' = [cursor EXCEPT !.tooltipTimer = FALSE]
  /\ last' = Call("other", "none", FALSE, "none")
  /\ UNCHANGED <<remoteSelections, nextClassId, selection, markers, ecmVars,
                 steps, rt, rg>>

NextValid ==
  \/ Construct
  \/ CursorSetIndexOf \/ CursorSetPositionOf \/ CursorShow \/ CursorHide
  \/ ShowTooltip

SpecValid == InitValid /\ [][NextValid]_vars

\* Math.min
Min(x, y) == IF x <= y THEN x ELSE y

\* A remote cursor on the editor: the manager is the EditorContentManager of
\* the cursor's widget, whose callbacks are _onInsert, _onReplace and
\* _onDelete of the widget.  Every change of the editor is a local change to
\* this manager.

\* _onInsert, _onReplace, _onDelete of RemoteCursorWidget, invoked with the
\* arguments of call when the editor holds the document d (the document
\* when _onChanges runs).
widgetCallbackIn(d, w, call) ==
  LET currentIndex == w.index
      newIndex == IF call.cb = "onInsert" THEN currentIndex + Len(call.text)
                  ELSE IF call.cb = "onReplace"
                  THEN (currentIndex
                          - Min(currentIndex - call.index, call.length))
                         + Len(call.text)
                  ELSE currentIndex - Min(currentIndex - call.index, call.length)
  IN  IF call.index <= currentIndex
      THEN updatePositionIn(d, w, posFromIndex(d, newIndex))
      ELSE w

\* The widget after the callbacks cs from the j-th on.
RECURSIVE widgetCallbacksIn(_, _, _, _)
widgetCallbacksIn(d, w, cs, j) ==
  IF j > Len(cs) THEN w
  ELSE widgetCallbacksIn(d, widgetCallbackIn(d, w, cs[j]), cs, j + 1)

widgetCallback(w, call) == widgetCallbackIn(doc, w, call)

widgetCallbacks(w, cs, j) == widgetCallbacksIn(doc, w, cs, j)

InitCursor ==
  /\ \E d \in InitDocs : newManager(d)
  /\ tdoc = <<>>
  /\ rt = NoRoundTrip
  /\ rg = NoRange
  /\ remoteSelections = [id \in Ids |-> 0]
  /\ nextClassId = 0
  /\ selection = <<>>
  /\ markers = {}
  /\ cursor = RemoteCursorWidget(FALSE)
  /\ last = NoCall

\* The operation ends: "changes" is signalled to the widget's manager, which
\* invokes the widget's callbacks.
EndOperationCursor ==
  /\ Step
  /\ endOperation(FALSE, 0)
  /\ cursor' = widgetCallbacks(cursor, calls', 1)
  /\ UNCHANGED <<rt, rg, remoteSelections, nextClassId, selection, markers, last>>

\* setIndex called on the cursor between two operations.
CursorPlace == ~inOp /\ CursorSetIndex

NextCursor ==
  \/ BeginOperation
  \/ LocalChange
  \/ EndOperationCursor
  \/ CursorPlace

SpecCursor == InitCursor /\ [][NextCursor]_vars

\* An editor with a remote cursor and the application's EditorContentManager,
\* through which the application plays remote edits into the editor.  The
\* manager of the state is the one of the cursor's widget; suppress is the
\* flag of the application's manager, which reports nothing of its own
\* playback.

\* this._suppress as a handler of a manager tests it: own is the flag of the
\* manager itself, other the flag of another manager on the same editor.
suppressedByAny(own, other) == own \/ other
suppressed(own, other) == own

\* One more edit of a bounded run.
Edit == steps < MaxEdits /\ steps' = steps + 1

\* One change made in an operation of its own, while the flag of the
\* application's manager is sup: "beforeChange", the change, "changes".
ownOperation(changeObj, committed, sup) ==
  LET mine == suppressed(FALSE, sup)
      q1 == IF listening
            THEN onBeforeChange(operationQueue, mine, doc, changeObj,
                                IF committed THEN 1 ELSE 0)
            ELSE operationQueue
      st == [queue |-> q1, calls |-> <<>>, listening |-> listening,
             error |-> NoError, tdoc |-> tdoc]
      out == IF committed /\ listening
             THEN onChanges(st, mine, <<changeObj>>, FALSE, 0)
             ELSE st
      d1 == IF committed
            THEN applyChange(doc, changeObj.from, changeObj.to, changeObj.text)
            ELSE doc
  IN  /\ ~inOp
      /\ doc' = d1
      /\ changeObjs' = IF committed THEN <<changeObj>> ELSE <<>>
      /\ operationQueue' = stale(out.queue)
      /\ calls' = out.calls
      /\ error' = out.error
      /\ ran' = (committed /\ listening /\ ~mine)
      /\ Len(doc') <= MaxDocLen
      /\ cursor' = widgetCallbacksIn(doc', cursor, calls', 1)
      /\ UNCHANGED <<tdoc, inOp, suppress, listening, rt, rg, remoteSelections,
                     nextClassId, selection, markers, last>>

\* insert, replace or delete of the application's manager: its flag is set
\* while the host signals the change.
otherPlayback(from, to, lines) ==
  ownOperation(ChangeObj(doc, OffsetAt(doc, from), OffsetAt(doc, to), lines,
                         "remote"),
               ~isEmptyChange(from, to, lines), TRUE)

OtherInsert ==
  /\ Edit
  /\ \E index \in 0..(Len(doc) + 1) : \E text \in PlayTexts :
       LET from == posFromIndex(doc, index)
       IN  otherPlayback(from, from, splitLines(text))

OtherReplace ==
  /\ Edit
  /\ \E index \in 0..(Len(doc) + 1) : \E length \in 1..2 : \E text \in PlayTexts :
       otherPlayback(posFromIndex(doc, index), posFromIndex(doc, index + length),
                     splitLines(text))

OtherDelete ==
  /\ Edit
  /\ \E index \in 0..(Len(doc) + 1) : \E length \in 1..2 :
       otherPlayback(posFromIndex(doc, index), posFromIndex(doc, index + length),
                     splitLines(<<>>))

\* The user makes one change (typing, or replaceRange of the application).
UserChange ==
  /\ Edit
  /\ \E a \in 0..Len(doc) : \E b \in a..Len(doc) : \E lines \in LocalTexts :
       LET changeObj == ChangeObj(doc, a, b, lines, "local")
       IN  ownOperation(changeObj,
                        ~isEmptyChange(changeObj.from, changeObj.to, lines),
                        FALSE)

NextShared ==
  \/ CursorPlace
  \/ OtherInsert
  \/ OtherReplace
  \/ OtherDelete
  \/ UserChange

SpecShared == InitCursor /\ [][NextShared]_vars

NextMirror ==
  \/ BeginOperation
  \/ LocalChange
  \/ EndOperationMirror

SpecMirror == InitMirror /\ [][NextMirror]_vars

-----------------------------------------------------------------------------
(* Claims.                                                                 *)

\* The callbacks invoked in the turn of the i-th change of the last batch.
\* The callbacks invoked by the last run of _onChanges, with their arguments.
invoked ==
  [j \in 1..Len(calls) |->
     [cb |-> calls[j].cb, index |-> calls[j].index,
      length |-> calls[j].length, text |-> calls[j].text]]

isLocal(c) == c.origin = "local"

\* The batch of the last run of _onChanges is the one local change c.
only(c) == ran /\ changeObjs = <<c>> /\ isLocal(c)

\* C1: a non-suppressed local change that inserts non-empty text at offset k
\* with an empty removed range makes the manager invoke onInsert exactly
\* once, with (k, the text), and onReplace and onDelete not at all.  Stated
\* for a batch that holds this one change.
C1_InsertReported ==
  \A i \in 1..Len(changeObjs) :
    LET c == changeObjs[i]
    IN  (only(c) /\ c.a = c.b /\ c.text # << <<>> >>) =>
          invoked = << [cb |-> "onInsert", index |-> c.a, length |-> 0,
                        text |-> join(c.text)] >>

\* C2: a non-suppressed local change that removes the non-empty range [a, b)
\* and inserts nothing makes the manager invoke onDelete exactly once, with
\* (a, b - a), and onInsert and onReplace not at all.  Stated for a batch
\* that holds this one change.
C2_DeleteReported ==
  \A i \in 1..Len(changeObjs) :
    LET c == changeObjs[i]
    IN  (only(c) /\ c.a < c.b /\ c.text = << <<>> >>) =>
          invoked = << [cb |-> "onDelete", index |-> c.a,
                        length |-> c.b - c.a, text |-> <<>>] >>

\* C3: a non-suppressed local change that replaces the non-empty range [a, b)
\* by the non-empty text T makes the manager invoke onReplace exactly once,
\* with (a, b - a, T), and never onDelete and onInsert instead.  Stated for
\* a batch that holds this one change.
C3_ReplaceReported ==
  \A i \in 1..Len(changeObjs) :
    LET c == changeObjs[i]
    IN  (only(c) /\ c.a < c.b /\ c.text # << <<>> >>) =>
          invoked = << [cb |-> "onReplace", index |-> c.a,
                        length |-> c.b - c.a, text |-> join(c.text)] >>

\* C4: an edit applied by insert, replace or delete never makes the manager
\* invoke a callback, also when "changes" is delivered after the call has
\* returned: a batch that holds playback edits only invokes no callback.
C4_PlaybackNotReported ==
  (\A i \in 1..Len(changeObjs) : changeObjs[i].origin = "remote") => calls = <<>>

\* The queue is in step with the batch: as many records as changes, the i-th
\* made by the before-change notification of the i-th change.
InStep ==
  /\ Len(operationQueue) = Len(changeObjs)
  /\ \A i \in 1..Len(operationQueue) : operationQueue[i].tag = i

\* C5: whenever _onChanges runs unsuppressed on a batch, the queue is in step
\* with the batch.
C5_QueueInStep ==
  [][(inOp /\ ~inOp' /\ listening /\ ~suppress /\ changeObjs # <<>>) => InStep]_vars

\* C6: after every completed batch of local edits of the source editor the
\* target editor holds the same document.
C6_Mirror == ~inOp => tdoc = doc

\* The text holds no carriage return followed by a line feed.
noCRLF(t) == \A j \in 1..(Len(t) - 1) : ~(t[j] = CR /\ t[j + 1] = NL)

\* C7 as claimed: for every document, every offset i and every text t,
\* insert(i, t) and then delete(i, length of t) leave the document as it was.
C7_RoundTripAny == rt.pc = "done" => doc = rt.orig

\* C7 as amended: for every document, every offset i within the document
\* (0 <= i <= its length) and every text t without a carriage return followed
\* by a line feed, insert(i, t) and then delete(i, length of t) leave the
\* document as it was.
C7_RoundTrip ==
  (rt.pc = "done" /\ rt.i <= Len(rt.orig) /\ noCRLF(rt.t)) => doc = rt.orig

\* C7's case: a multi-line text inserted inside a non-empty document and
\* deleted again.
C7_Witness ==
  /\ rt.pc = "done"
  /\ 0 < rt.i /\ rt.i < Len(rt.orig)
  /\ Len(rt.t) = MaxTextLen /\ NL \in {rt.t[j] : j \in 1..Len(rt.t)}
  /\ noCRLF(rt.t)
  /\ doc = rt.orig

\* C8: a second dispose() of a remote cursor or of a remote selection raises
\* no error, does not invoke onDisposed again, and changes nothing of the
\* decorators, of the registry or of the editor.
C8_SecondDisposeNoOp ==
  [][(last'.op = "dispose" /\ last'.again) =>
       /\ last'.raised = "none"
       /\ selection' = selection
       /\ cursor' = cursor
       /\ remoteSelections' = remoteSelections
       /\ nextClassId' = nextClassId
       /\ markers' = markers
       /\ ecmVars' = ecmVars]_vars

\* C8's case: a remote selection and the remote cursor have both been
\* disposed of a second time, the selection with a marker rendered.
C8_Witness ==
  /\ last.op = "dispose" /\ last.again
  /\ last.seen = {"selection", "cursor"}
  /\ \E n \in 1..Len(selection) :
       selection[n].disposed /\ selection[n].marker = "cleared"

\* C9: once dispose() has been called no callback is invoked any more.
C9_NoCallbackAfterDispose == \A j \in 1..Len(calls) : ~calls[j].late

\* C10: an "Unexpected change" error is raised for a local change that
\* neither removes nor inserts text, and carries the change object of that
\* change.
C10_UnexpectedChange ==
  error.kind = "Unexpected change" =>
    /\ isLocal(error.change)
    /\ error.change.a = error.change.b
    /\ error.change.text = << <<>> >>

\* C11: whenever _onChanges runs unsuppressed on a batch whose number of
\* changes differs from the number of queued records, it raises an error and
\* invokes no callback.
C11_MismatchRaises ==
  [][(inOp /\ ~inOp' /\ listening /\ ~suppress /\ changeObjs # <<>>
        /\ Len(operationQueue) # Len(changeObjs))
       => (error'.kind # "none" /\ calls' = <<>>)]_vars

\* C12: a remote selection that has been disposed of has no marker in the
\* editor, whatever is called on it or on its manager afterwards.
C12_NoMarkerAfterDispose ==
  \A n \in 1..Len(selection) :
    selection[n].disposed =>
      \A m \in markers : m.className # selection[n].classId

\* The node of the cursor's widget is in the editor and is not hidden.
displayed(w) == w.domNode /\ w.display # "none"

\* C13: a remote cursor that has been disposed of is not displayed in the
\* editor, whether it was shown or hidden before, whatever is called later.
C13_DisposedCursorNotDisplayed == cursor.disposed => ~displayed(cursor)


\* Document d with the characters at the offsets lo up to hi replaced by text.
spliced(d, lo, hi, text) ==
  SubSeq(d, 1, Min(lo, Len(d))) \o text \o SubSeq(d, Min(hi, Len(d)) + 1, Len(d))

C15_InvalidArgumentRaises ==
  [][last'.bad # {} =>
       /\ last'.raised \in last'.bad
       /\ listening' = listening
       /\ cursor' = cursor
       /\ hostVars' = hostVars]_vars

\* C15's case: setPosition was given an invalid position on a cursor that
\* had been moved, with the manager constructed and no timer pending.
C15_Witness ==
  /\ last.bad = {"position"} /\ last.raised = "position"
  /\ cursor.index # 0 /\ ~cursor.tooltipTimer
  /\ listening
\* The callback a local change is to be reported by, with the offsets of the
\* change in the document as it was just before it.
reported(c) ==
  IF c.a = c.b
  THEN [cb |-> "onInsert", index |-> c.a, length |-> 0, text |-> join(c.text)]
  ELSE IF c.text = << <<>> >>
  THEN [cb |-> "onDelete", index |-> c.a, length |-> c.b - c.a, text |-> <<>>]
  ELSE [cb |-> "onReplace", index |-> c.a, length |-> c.b - c.a,
        text |-> join(c.text)]

\* C16: when _onChanges has run on a batch of committed local changes, the
\* callbacks invoked are exactly one for each change, in the order of the
\* changes, each with the offsets of its change in the document as it was
\* just before that change.
C16_OneCallbackEachInOrder ==
  (ran /\ \A i \in 1..Len(changeObjs) : isLocal(changeObjs[i])) =>
    invoked = [i \in 1..Len(changeObjs) |-> reported(changeObjs[i])]

\* The record _onBeforeChange queues for a committed local change c holds
\* the text of c: none when c.text is the single empty line, else its lines
\* joined by line breaks, as many characters as the change adds.
recordedText ==
  (inOp /\ listening /\ ~suppress /\ Len(changeObjs') = Len(changeObjs) + 1) =>
    LET c == changeObjs'[Len(changeObjs')]
    IN  isLocal(c) =>
          LET op == operationQueue'[Len(operationQueue')]
              added == IF op.inserted.null THEN 0 ELSE Len(op.inserted.val)
          IN  /\ op.inserted.null <=> c.text = << <<>> >>
              /\ ~op.inserted.null => op.inserted.val = join(c.text)
              /\ Len(doc') = Len(doc) - (c.b - c.a) + added

\* A batch of the one local change that inserts a line break at an empty
\* range is reported by onInsert(k, "\n") and raises no error.
lineBreakReported ==
  \A i \in 1..Len(changeObjs) :
    LET c == changeObjs[i]
    IN  (only(c) /\ c.a = c.b /\ c.text = << <<>>, <<>> >>) =>
          /\ invoked = << [cb |-> "onInsert", index |-> c.a, length |-> 0,
                           text |-> <<NL>>] >>
          /\ error.kind = "none"

\* C17: the inserted text recorded for a change is null exactly when the
\* replacement line list is the single empty string and else the lines joined
\* by line breaks, of the length the change adds to the document; and the
\* insertion of one line break at offset k is reported as onInsert(k, "\n"),
\* not as an unexpected change.
C17_TextRecordedAndReported == [][recordedText]_vars /\ []lineBreakReported

\* The first half of C17 alone.
C17_TextRecorded == [][recordedText]_vars

\* C18: the suppress flag is not set whenever no playback call is executing
\* (no insert, replace or delete call is executing in any state: each is one
\* step), also after a playback call has exited because the host raised an
\* error.
C18_NotSuppressedOutsidePlayback == suppress = FALSE

\* C19: when _onChanges exits with an error at the end of an operation, no
\* record made for a committed change of that operation is left in the
\* queue (the records left are the last ones of the queue as it was).
C19_NoRecordLeftAfterError ==
  [][(inOp /\ ~inOp' /\ error'.kind # "none") =>
       \A i \in 1..Len(operationQueue) :
         i > Len(operationQueue) - Len(operationQueue') =>
           operationQueue[i].tag = 0]_vars

\* The index a cursor at index is to have after the changes cs from the
\* i-th on, each applied at its offsets in the document just before it.
RECURSIVE transformed(_, _, _)
transformed(index, cs, i) ==
  IF i > Len(cs) THEN index
  ELSE LET c == cs[i]
           n == c.b - c.a
           t == IF c.text = << <<>> >> THEN 0 ELSE Len(join(c.text))
       IN  transformed(IF c.a <= index THEN index - Min(index - c.a, n) + t
                       ELSE index,
                       cs, i + 1)

\* C20: after any batch of changes of the editor the cursor's index is its
\* previous index transformed through each change of the batch in order.
\* Stated for the batches the queue is in step with.
C20_CursorFollowsChanges ==
  [][(inOp /\ ~inOp' /\ listening /\ InStep) =>
       cursor'.index = transformed(cursor.index, changeObjs, 1)]_vars

notAfter(p, q) == p.line < q.line \/ (p.line = q.line /\ p.ch <= q.ch)

\* C22: after setPositions(start, end) or setIndices(start, end) on a
\* selection its stored start position is not after its stored end position,
\* the stored pair is the given pair (for setIndices: the positions of the
\* given offsets), possibly exchanged, and the call with the two arguments
\* exchanged stores the same pair.
C22_StoredRangeOrdered ==
  last.n # 0 =>
    LET sel == selection[last.n]
        stored == <<sel.startPosition, sel.endPosition>>
        exchanged == swapIfNeeded(last.end, last.start)
    IN  /\ notAfter(sel.startPosition, sel.endPosition)
        /\ stored \in {<<last.start, last.end>>, <<last.end, last.start>>}
        /\ stored = <<exchanged.start, exchanged.end>>

\* C22's case: a selection was given its end before its start, and the
\* positions were exchanged.
C22_Witness ==
  /\ last.n # 0 /\ last.start # last.end
  /\ selection[last.n].startPosition = last.end
  /\ selection[last.n].endPosition = last.start
  /\ last.end.line = last.start.line

\* The n-th selection was hidden by hide and is not disposed.
hidden(n) == selection[n].marker = "cleared" /\ ~selection[n].disposed

\* C23: a step that changes the positions stored in a hidden selection (a
\* position setter; show changes none) leaves the selection hidden: no marker
\* of it is in the editor.
C23_SettersKeepHidden ==
  [][\A n \in 1..Len(selection) :
       (hidden(n) /\ Len(selection') = Len(selection)
          /\ <<selection'[n].startPosition, selection'[n].endPosition>>
               # <<selection[n].startPosition, selection[n].endPosition>>) =>
         \A m \in markers' : m.className # selection[n].classId]_vars

\* C24: each selection has at most one marker in the editor that is not
\* cleared.
C24_AtMostOneMarker ==
  \A n \in 1..Len(selection) :
    Cardinality({m \in markers : m.className = selection[n].classId}) <= 1

\* C24's case: setPositions has made a marker of a selection, over the
\* range from (0, 1) to (1, 0).
C24_Witness ==
  /\ last.op = "setPositions" /\ last.n # 0
  /\ \E m \in markers :
       /\ m.className = selection[last.n].classId
       /\ m.from = Pos(0, 1) /\ m.to = Pos(1, 0)

====
